---- MODULE Spec2Model ----
(***************************************************************************)
(* Model of the select()-based load balancer of src/code/lb.py.            *)
(*                                                                         *)
(* One step of the model is one wake-up of select() (lb.py:99) that        *)
(* reports one ready socket, together with the whole handler that runs for *)
(* it.  Sockets are named: a backend socket by the name of its backend, a  *)
(* client socket by the position of its accept().  Time is an integer      *)
(* clock; a payload is the tuple of characters of request.decode().strip().*)
(***************************************************************************)
EXTENDS Integers, Sequences, FiniteSets, TLC

\* ------------------------------------------------------------------ bounds
MaxClients == 2      \* client connections accepted in one run
MaxDecisions == 2    \* client payloads read with a non-empty recv in one run
MaxTime == 1         \* last value of the clock

\* ----------------------------------------------------------- configuration
None == "None"

\* lb.py:13-17, in the order SERVERS.items() yields them
ServerOrder == <<"serv1", "serv2", "serv3">>

SERVERS ==
    [name \in {"serv1", "serv2", "serv3"} |->
        IF name = "serv3" THEN "MUSIC" ELSE "VIDEO"]

ServerNames == DOMAIN SERVERS

\* lb.py:57-72: main() returns when a connect fails, so the loop only ever
\* runs with a socket for every configured backend; no line removes an entry.
server_sockets == ServerNames

ClientOrder == <<"c1", "c2", "c3", "c4", "c5">>

Clients == {ClientOrder[i] : i \in 1..MaxClients}

\* the Cost Table with the VIDEO and MUSIC multipliers of type V exchanged
TIME_MULTIPLIERS_Swapped(server_type, request_type) ==
    CASE server_type = "VIDEO" /\ request_type = "M" -> 2
      [] server_type = "VIDEO" /\ request_type = "V" -> 3
      [] server_type = "VIDEO" /\ request_type = "P" -> 1
      [] server_type = "MUSIC" /\ request_type = "M" -> 1
      [] server_type = "MUSIC" /\ request_type = "V" -> 1
      [] server_type = "MUSIC" /\ request_type = "P" -> 2
      [] OTHER -> 1

\* lb.py:22-29 with the default of TIME_MULTIPLIERS.get(..., 1) at lb.py:43
TIME_MULTIPLIERS(server_type, request_type) ==
    CASE server_type = "VIDEO" /\ request_type = "M" -> 2
      [] server_type = "VIDEO" /\ request_type = "V" -> 1
      [] server_type = "VIDEO" /\ request_type = "P" -> 1
      [] server_type = "MUSIC" /\ request_type = "M" -> 1
      [] server_type = "MUSIC" /\ request_type = "V" -> 3
      [] server_type = "MUSIC" /\ request_type = "P" -> 2
      [] OTHER -> 1

\* ------------------------------------------------------------- cost model
DigitChars == <<"0", "1", "2", "3", "4", "5", "6", "7", "8", "9">>

IsDigit(ch) == \E i \in 1..Len(DigitChars) : DigitChars[i] = ch

\* int(ch) for a one-character string that int() accepts (lb.py:41)
IntOfChar(ch) == (CHOOSE i \in 1..Len(DigitChars) : DigitChars[i] = ch) - 1

\* lb.py:41: int(request[1]) raises ValueError on a character that is no digit
RaisesValueError(request) == Len(request) >= 2 /\ ~IsDigit(request[2])

\* a cost that adds the multiplier to the magnitude instead of scaling by it
get_estimated_processing_time_Adds(server_type, request) ==
    IF Len(request) < 2
    THEN 0
    ELSE IntOfChar(request[2]) + TIME_MULTIPLIERS(server_type, request[1])

\* lb.py:35-44, for a request on which int() does not raise
get_estimated_processing_time(server_type, request) ==
    IF Len(request) < 2
    THEN 0
    ELSE LET request_type == request[1]
             base_duration == IntOfChar(request[2])
             multiplier == TIME_MULTIPLIERS(server_type, request_type)
         IN  base_duration * multiplier

\* The payloads the clients of the model send, after decode().strip()
Payloads ==
    { <<>>, <<"V">>, <<"V", "1">>, <<"V", "5">>, <<"M", "1">>, <<"V", "x">> }

\* ------------------------------------------------------------- scheduling
Max(a, b) == IF a >= b THEN a ELSE b

\* a job that starts at the decision time whatever the backend's backlog
start_time_NoMax(current_time, finish_times, name) == current_time

\* lb.py:150
start_time(current_time, finish_times, name) ==
    Max(current_time, finish_times[name])

\* lb.py:150-154
finish_time(current_time, finish_times, name, request) ==
    start_time(current_time, finish_times, name)
        + get_estimated_processing_time(SERVERS[name], request)

\* a comparison that lets a later backend take over on a tie
IsEarlier_OrEqual(finish, acc) ==
    ~acc.finite \/ finish <= acc.earliest_finish_time

\* lb.py:156: finish_time < earliest_finish_time, earliest starting at inf
IsEarlier(finish, acc) == ~acc.finite \/ finish < acc.earliest_finish_time

\* lb.py:138-139
NoChoice == [best_server_name |-> None, finite |-> FALSE,
             earliest_finish_time |-> 0]

RECURSIVE ScheduleLoop(_, _, _, _, _)
\* lb.py:143-158: the for loop over SERVERS.items(), from position i on
ScheduleLoop(i, acc, current_time, finish_times, request) ==
    IF i > Len(ServerOrder)
    THEN acc
    ELSE LET name == ServerOrder[i]
             finish == finish_time(current_time, finish_times, name, request)
         IN  IF name \notin server_sockets
             THEN ScheduleLoop(i + 1, acc, current_time, finish_times, request)
             ELSE IF IsEarlier(finish, acc)
                  THEN ScheduleLoop(i + 1,
                           [best_server_name |-> name, finite |-> TRUE,
                            earliest_finish_time |-> finish],
                           current_time, finish_times, request)
                  ELSE ScheduleLoop(i + 1, acc, current_time, finish_times,
                                    request)

\* a decision computed from the estimates of start-up, not the current ones
Schedule_StaleSnapshot(current_time, finish_times, request) ==
    ScheduleLoop(1, NoChoice, current_time,
                 [name \in DOMAIN finish_times |-> 0], request)

\* lb.py:138-158
Schedule(current_time, finish_times, request) ==
    ScheduleLoop(1, NoChoice, current_time, finish_times, request)

\* ------------------------------------------------------------------ state
VARIABLES
    running,              \* TRUE while the while-loop of lb.py:97 runs
    now,                  \* what time.time() returns
    server_finish_times,  \* lb.py:59
    inputs,               \* lb.py:84, without the listening socket
    closed,               \* the sockets on which close() was called
    client_to_server,     \* lb.py:91
    server_to_client,     \* lb.py:92
    accepted,             \* number of accept() calls so far
    pending,              \* per backend, the clients whose forwarded requests
                          \* it has received and not yet answered, oldest first
    decisions,            \* per client, the number of scheduling decisions
    responded,            \* the clients a response was sent to
    event                 \* the handler that ran last and what it did

vars == <<running, now, server_finish_times, inputs, closed, client_to_server,
          server_to_client, accepted, pending, decisions, responded, event>>

NoEvent == [kind |-> "start", sock |-> None, request |-> <<>>,
            chosen |-> None, finish |-> 0, origin |-> None, target |-> None,
            outcome |-> "ok"]

Ev(kind, sock, outcome) == [NoEvent EXCEPT !.kind = kind, !.sock = sock,
                                           !.outcome = outcome]

\* lb.py:57-92: every backend connected and free "now", no client yet
Init ==
    /\ running = TRUE
    /\ now = 0
    /\ server_finish_times = [name \in ServerNames |-> 0]
    /\ inputs = ServerNames
    /\ closed = {}
    /\ client_to_server = [c \in Clients |-> None]
    /\ server_to_client = [s \in ServerNames |-> None]
    /\ accepted = 0
    /\ pending = [s \in ServerNames |-> <<>>]
    /\ decisions = [c \in Clients |-> 0]
    /\ responded = {}
    /\ event = NoEvent

RECURSIVE SumOver(_, _)
SumOver(f, S) ==
    IF S = {} THEN 0
    ELSE LET x == CHOOSE y \in S : TRUE IN f[x] + SumOver(f, S \ {x})

TotalDecisions == SumOver(decisions, Clients)

\* lb.py:192-197: an exception that no handler catches leaves the loop; the
\* finally block closes every socket still in inputs
Crash(kind, sock, outcome, ev) ==
    /\ running' = FALSE
    /\ closed' = closed \cup inputs
    /\ event' = [ev EXCEPT !.kind = kind, !.sock = sock, !.outcome = outcome]

\* the clock moves on between two wake-ups
Tick ==
    /\ running
    /\ now < MaxTime
    /\ now' = now + 1
    /\ event' = Ev("tick", None, "ok")
    /\ UNCHANGED <<running, server_finish_times, inputs, closed,
                   client_to_server, server_to_client, accepted, pending,
                   decisions, responded>>

\* lb.py:103-108
Accept ==
    /\ running
    /\ accepted < MaxClients
    /\ accepted' = accepted + 1
    /\ inputs' = inputs \cup {ClientOrder[accepted + 1]}
    /\ event' = Ev("accept", ClientOrder[accepted + 1], "ok")
    /\ UNCHANGED <<running, now, server_finish_times, closed,
                   client_to_server, server_to_client, pending, decisions,
                   responded>>

\* lb.py:131-176: a client socket is readable and recv() returns a payload
ClientRequest(sock, request_str) ==
    /\ running
    /\ sock \in Clients /\ sock \in inputs
    /\ TotalDecisions < MaxDecisions
    /\ IF RaisesValueError(request_str)
       THEN \* lb.py:152 raises in the first iteration of the for loop
            /\ Crash("request", sock, "ValueError",
                     [NoEvent EXCEPT !.request = request_str])
            /\ UNCHANGED <<now, server_finish_times, inputs, client_to_server,
                           server_to_client, accepted, pending, decisions,
                           responded>>
       ELSE LET current_time == now
                d == Schedule(current_time, server_finish_times, request_str)
                best_server_name == d.best_server_name
                earliest_finish_time == d.earliest_finish_time
                \* lb.py:164
                chosen_server_socket ==
                    IF best_server_name \in server_sockets
                    THEN best_server_name ELSE None
                ev == [NoEvent EXCEPT !.request = request_str,
                                      !.chosen = best_server_name,
                                      !.finish = earliest_finish_time]
            IN  \* lb.py:161 (best_server_name is a backend name here: the
                \* loop above scans the whole of server_sockets)
                /\ server_finish_times' =
                       [server_finish_times EXCEPT
                            ![best_server_name] = earliest_finish_time]
                /\ decisions' = [decisions EXCEPT ![sock] = @ + 1]
                /\ IF chosen_server_socket = None
                   THEN \* lb.py:173-176
                        /\ inputs' = inputs \ {sock}
                        /\ closed' = closed \cup {sock}
                        /\ event' = [ev EXCEPT !.kind = "request",
                                               !.sock = sock,
                                               !.outcome = "dropped"]
                        /\ UNCHANGED <<running, client_to_server,
                                       server_to_client, pending>>
                   ELSE IF chosen_server_socket \in closed
                   THEN \* lb.py:169: send() on a closed socket raises OSError
                        /\ Crash("request", sock, "OSError", ev)
                        /\ UNCHANGED <<inputs, client_to_server,
                                       server_to_client, pending>>
                   ELSE \* lb.py:169-172
                        /\ pending' = [pending EXCEPT
                               ![chosen_server_socket] = Append(@, sock)]
                        /\ client_to_server' = [client_to_server EXCEPT
                               ![sock] = chosen_server_socket]
                        /\ server_to_client' = [server_to_client EXCEPT
                               ![chosen_server_socket] = sock]
                        /\ event' = [ev EXCEPT !.kind = "request",
                                               !.sock = sock,
                                               !.outcome = "forwarded"]
                        /\ UNCHANGED <<running, inputs, closed>>
                /\ UNCHANGED <<now, accepted, responded>>

\* a disconnect handler that drops the socket from inputs and forgets close()
ClientDisconnect_NoClose(sock) ==
    /\ running
    /\ sock \in Clients /\ sock \in inputs
    /\ inputs' = inputs \ {sock}
    /\ event' = Ev("client_closed", sock, "ok")
    /\ UNCHANGED <<running, now, server_finish_times, closed,
                   client_to_server, server_to_client, accepted, pending,
                   decisions, responded>>

\* lb.py:131-133, 178-182: a client socket is readable and recv() returns b''
ClientDisconnect(sock) ==
    /\ running
    /\ sock \in Clients /\ sock \in inputs
    /\ inputs' = inputs \ {sock}
    /\ closed' = closed \cup {sock}
    /\ event' = Ev("client_closed", sock, "ok")
    /\ UNCHANGED <<running, now, server_finish_times, client_to_server,
                   server_to_client, accepted, pending, decisions, responded>>

\* lb.py:110-124: a backend socket is readable and recv() returns the
\* response to the oldest request that backend has not answered yet
ServerResponse(sock) ==
    /\ running
    /\ sock \in server_sockets /\ sock \in inputs
    /\ pending[sock] # <<>>
    /\ LET origin == Head(pending[sock])
           \* lb.py:116
           client_socket == server_to_client[sock]
           ev == [NoEvent EXCEPT !.origin = origin, !.target = client_socket]
       IN  /\ pending' = [pending EXCEPT ![sock] = Tail(@)]
           /\ server_to_client' = [server_to_client EXCEPT ![sock] = None]
           /\ IF client_socket = None
              THEN \* lb.py:123-124
                   /\ event' = [ev EXCEPT !.kind = "response", !.sock = sock,
                                          !.outcome = "no_client"]
                   /\ UNCHANGED <<running, inputs, closed, responded>>
              ELSE IF client_socket \in closed
              THEN \* lb.py:118: send() on a closed socket raises OSError
                   /\ Crash("response", sock, "OSError", ev)
                   /\ UNCHANGED <<inputs, responded>>
              ELSE \* lb.py:118-121
                   /\ responded' = responded \cup {client_socket}
                   /\ inputs' = inputs \ {client_socket}
                   /\ closed' = closed \cup {client_socket}
                   /\ event' = [ev EXCEPT !.kind = "response", !.sock = sock,
                                          !.outcome = "relayed"]
                   /\ UNCHANGED running
    /\ UNCHANGED <<now, server_finish_times, client_to_server, accepted,
                   decisions>>

\* a backend-closed handler that also resets the backend's estimate
ServerClose_ResetsEstimate(sock) ==
    /\ running
    /\ sock \in server_sockets /\ sock \in inputs
    /\ inputs' = inputs \ {sock}
    /\ closed' = closed \cup {sock}
    /\ server_finish_times' = [server_finish_times EXCEPT ![sock] = now]
    /\ event' = Ev("server_closed", sock, "ok")
    /\ UNCHANGED <<running, now, client_to_server, server_to_client,
                   accepted, pending, decisions, responded>>

\* lb.py:110-113, 125-129: a backend socket is readable and recv() returns b''
ServerClose(sock) ==
    /\ running
    /\ sock \in server_sockets /\ sock \in inputs
    /\ inputs' = inputs \ {sock}
    /\ closed' = closed \cup {sock}
    /\ event' = Ev("server_closed", sock, "ok")
    /\ UNCHANGED <<running, now, server_finish_times, client_to_server,
                   server_to_client, accepted, pending, decisions, responded>>

\* lb.py:185-190: select() reports an exceptional condition on a socket
Exceptional(sock) ==
    /\ running
    /\ sock \in inputs
    /\ inputs' = inputs \ {sock}
    /\ closed' = closed \cup {sock}
    /\ event' = Ev("exceptional", sock, "ok")
    /\ UNCHANGED <<running, now, server_finish_times, client_to_server,
                   server_to_client, accepted, pending, decisions, responded>>

Next ==
    \/ Tick
    \/ Accept
    \/ \E sock \in Clients, request_str \in Payloads :
           ClientRequest(sock, request_str)
    \/ \E sock \in Clients : ClientDisconnect(sock)
    \/ \E sock \in ServerNames : ServerResponse(sock)
    \/ \E sock \in ServerNames : ServerClose(sock)
    \/ \E sock \in ServerNames \cup Clients : Exceptional(sock)

Spec == Init /\ [][Next]_vars

TypeOK ==
    /\ running \in BOOLEAN
    /\ now \in 0..MaxTime
    /\ server_finish_times \in [ServerNames -> Nat]
    /\ inputs \subseteq ServerNames \cup Clients
    /\ closed \subseteq ServerNames \cup Clients
    /\ client_to_server \in [Clients -> ServerNames \cup {None}]
    /\ server_to_client \in [ServerNames -> Clients \cup {None}]
    /\ accepted \in 0..MaxClients
    /\ decisions \in [Clients -> 0..MaxDecisions]
    /\ responded \subseteq Clients

\* The run in which the loop keeps handling readiness events, every backend
\* answers each request it receives, no connection fails and each client
\* sends one well-formed payload and then waits for its response.
LiveNext ==
    \/ Tick
    \/ Accept
    \/ \E sock \in Clients, request_str \in Payloads :
           /\ client_to_server[sock] = None
           /\ ~RaisesValueError(request_str)
           /\ ClientRequest(sock, request_str)
    \/ \E sock \in ServerNames : ServerResponse(sock)

LiveSpec ==
    /\ Init
    /\ [][LiveNext]_vars
    /\ \A sock \in ServerNames : WF_vars(ServerResponse(sock))

\* --------------------------------------------------------------- vocabulary
\* A backend is ACTIVE until its socket is removed from inputs and closed.
ActiveServers == {b \in ServerNames : b \in inputs /\ b \notin closed}

RetiredServers == {b \in ServerNames : b \in closed}

ServerIndex(name) == CHOOSE i \in 1..Len(ServerOrder) : ServerOrder[i] = name

\* a step in which lb.py:161 commits a scheduling decision
DecisionStep == event'.kind = "request" /\ decisions' # decisions

\* c(b) of the request read in this step, from the Cost Table
ClaimCost(b, request) ==
    IF Len(request) < 2 THEN 0
    ELSE IntOfChar(request[2]) * TIME_MULTIPLIERS(SERVERS[b], request[1])

\* finish(b) = max(now, tracker[b]) + c(b), on the state before the step
ClaimFinish(b, request) ==
    (IF now >= server_finish_times[b] THEN now ELSE server_finish_times[b])
        + ClaimCost(b, request)

\* b is the first backend of S, in configuration order, with the least
\* finish(b), and the step commits exactly that value
IsLeastFinish(b, S, request) ==
    /\ b \in S
    /\ \A o \in S :
           /\ ClaimFinish(b, request) <= ClaimFinish(o, request)
           /\ ClaimFinish(o, request) = ClaimFinish(b, request)
                  => ServerIndex(b) <= ServerIndex(o)
    /\ server_finish_times'[b] = ClaimFinish(b, request)

\* ------------------------------------------------------------------- claims

\* C1: every scheduling decision chooses the ACTIVE backend with the least
\* finish(b) = max(now, tracker[b]) + c(b), the first in configuration order
\* on a tie, and sets tracker[chosen] to that least finish value.
C1_LeastFinishAmongActive ==
    [][(DecisionStep /\ ActiveServers # {})
          => IsLeastFinish(event'.chosen, ActiveServers, event'.request)]_vars

\* C2: no step of the loop decreases a backend's tracked finish time.
C2_TrackerNeverDecreases ==
    [][\A b \in ServerNames :
           server_finish_times'[b] >= server_finish_times[b]]_vars

\* a second commit landed on a backend whose estimate lies in the future
C2_Witness ==
    /\ event.kind = "request"
    /\ event.chosen # None
    /\ TotalDecisions >= 2
    /\ server_finish_times[event.chosen] = event.finish
    /\ event.finish > now

\* C3: a retired backend is never chosen by a later decision, its tracker
\* entry is never written again, and it stays retired.
C3_RetiredNeverScheduled ==
    [][/\ DecisionStep => event'.chosen \notin RetiredServers
       /\ \A b \in RetiredServers :
              /\ server_finish_times'[b] = server_finish_times[b]
              /\ b \in closed' /\ b \notin inputs']_vars

\* C4: with every backend retired, a client request gets "none available":
\* the client is closed, the loop goes on and no backend is touched.
C4_NoneAvailableDropsClient ==
    [][(event'.kind = "request" /\ ActiveServers = {})
          => /\ event'.chosen = None
             /\ event'.outcome = "dropped"
             /\ event'.sock \in closed'
             /\ running'
             /\ pending' = pending
             /\ server_finish_times' = server_finish_times]_vars

\* C5: a response read from a backend is relayed to the client whose
\* forwarded request it answers (as long as that client is still connected).
C5_ResponseToOriginator ==
    [][(event'.kind = "response" /\ event'.origin \notin closed)
          => /\ event'.outcome = "relayed"
             /\ event'.target = event'.origin]_vars

\* C6: no client or backend event makes the event loop exit.
C6_LoopNeverTerminates == running

\* C7: with all three backends free at T, "V5" at T goes to serv1 with
\* finish T+5; with serv1 booked until T+5 and the clock still T, "V5" goes
\* to serv2 with finish T+5.
C7_TwoVideoRequests ==
    [][(DecisionStep /\ event'.request = <<"V", "5">>)
          => /\ (\A b \in ServerNames : server_finish_times[b] <= now)
                    => /\ event'.chosen = "serv1"
                       /\ server_finish_times'["serv1"] = now + 5
             /\ (/\ server_finish_times["serv1"] = now + 5
                 /\ server_finish_times["serv2"] <= now
                 /\ server_finish_times["serv3"] <= now)
                    => /\ event'.chosen = "serv2"
                       /\ server_finish_times'["serv2"] = now + 5]_vars

\* the second "V5" was forwarded to serv2 while serv1 holds the first one
C7_Witness ==
    /\ event.kind = "request" /\ event.outcome = "forwarded"
    /\ event.request = <<"V", "5">>
    /\ event.chosen = "serv2"
    /\ pending["serv1"] # <<>>
    /\ server_finish_times["serv1"] = now + 5
    /\ server_finish_times["serv2"] = now + 5
    /\ server_finish_times["serv3"] <= now

C9_OneDecisionPerClient ==
    [][(event'.kind = "request" /\ client_to_server[event'.sock] # None)
          => /\ decisions' = decisions
             /\ server_finish_times' = server_finish_times
             /\ pending' = pending]_vars

\* C10: every client whose request was forwarded eventually has a response
\* relayed to it and its connection closed.
C10_ForwardedEventuallyAnswered ==
    \A c \in Clients :
        (client_to_server[c] # None) ~> (c \in responded /\ c \in closed)

\* ------------------------------------------------- the cost model on its own
\* The type tags of the Cost Table and one tag that is not in it
CostTags == {"V", "M", "P", "X"}

\* the payloads int() accepts: too short, or a tag followed by a digit
CostRequests ==
    {<<>>} \cup {<<t>> : t \in CostTags}
           \cup {<<t, DigitChars[i]>> : t \in CostTags, i \in 1..Len(DigitChars)}

ServerTypes == {SERVERS[name] : name \in ServerNames}

\* a call of get_estimated_processing_time about to be made (lb.py:152)
CostInit ==
    /\ running = TRUE
    /\ now = 0
    /\ server_finish_times = [name \in ServerNames |-> 0]
    /\ inputs = ServerNames
    /\ closed = {}
    /\ client_to_server = [c \in Clients |-> None]
    /\ server_to_client = [s \in ServerNames |-> None]
    /\ accepted = 0
    /\ pending = [s \in ServerNames |-> <<>>]
    /\ decisions = [c \in Clients |-> 0]
    /\ responded = {}
    /\ event \in {[kind |-> "call", server_type |-> t, request |-> r,
                   result |-> 0] : t \in ServerTypes, r \in CostRequests}

\* lb.py:35-44: the call returns
CostReturn ==
    /\ event.kind = "call"
    /\ event' = [event EXCEPT
           !.kind = "return",
           !.result = get_estimated_processing_time(event.server_type,
                                                    event.request)]
    /\ UNCHANGED <<running, now, server_finish_times, inputs, closed,
                   client_to_server, server_to_client, accepted, pending,
                   decisions, responded>>

CostNext == CostReturn

CostSpec == CostInit /\ [][CostNext]_vars

\* the Cost Table as the specification gives it: (class, tag) -> multiplier
ClaimCostTable ==
    { <<"VIDEO", "M", 2>>, <<"VIDEO", "V", 1>>, <<"VIDEO", "P", 1>>,
      <<"MUSIC", "M", 1>>, <<"MUSIC", "V", 3>>, <<"MUSIC", "P", 2>> }

\* C11: get_estimated_processing_time returns 0 for a request of fewer than
\* two characters and otherwise magnitude * multiplier, the multiplier being
\* the Cost Table entry of (class, tag) or 1 when the table has none.
C11_CostIsMagnitudeTimesMultiplier ==
    event.kind = "return" =>
        IF Len(event.request) < 2
        THEN event.result = 0
        ELSE \E magnitude \in 0..9, multiplier \in 1..3 :
                 /\ DigitChars[magnitude + 1] = event.request[2]
                 /\ \/ <<event.server_type, event.request[1], multiplier>>
                           \in ClaimCostTable
                    \/ /\ multiplier = 1
                       /\ \A m \in 1..3 :
                              <<event.server_type, event.request[1], m>>
                                  \notin ClaimCostTable
                 /\ event.result = magnitude * multiplier

\* the cost of magnitude 9 under a tag the table does not list was returned
C11_Witness ==
    /\ event.kind = "return"
    /\ event.request = <<"X", "9">>
    /\ event.server_type = "MUSIC"
    /\ event.result = 9

\* C12: a client's request is never forwarded to a backend that still has
\* another client waiting for its response, so a waiting client's routing
\* entry is never overwritten.
C12_OneInFlightPerBackend ==
    [][(event'.kind = "request" /\ event'.outcome = "forwarded")
          => server_to_client[event'.chosen] \in {None, event'.sock}]_vars

\* C13: when a backend fails while a client waits for its response, the
\* backend is retired and the waiting client is closed without a response.
C13_BackendFailureClosesClient ==
    [][(/\ event'.kind \in {"server_closed", "exceptional"}
        /\ event'.sock \in ServerNames
        /\ server_to_client[event'.sock] # None
        /\ server_to_client[event'.sock] \in inputs)
          => /\ event'.sock \in closed'
             /\ server_to_client[event'.sock] \in closed'
             /\ server_to_client[event'.sock] \notin inputs'
             /\ server_to_client[event'.sock] \notin responded']_vars

\* C14: whatever payload a client sends, the scheduling decision completes,
\* chooses a backend and raises no parsing error.
C14_EveryPayloadTolerated ==
    event.kind = "request"
        => /\ event.outcome # "ValueError"
           /\ event.chosen # None

\* C15: an empty read on a client that has sent no request closes that
\* connection without error and without a scheduling decision, and leaves
\* the tracker, both routing tables and every backend connection unchanged.
C15_EarlyDisconnectTouchesNothing ==
    [][(event'.kind = "client_closed" /\ decisions[event'.sock] = 0)
          => /\ event'.sock \in closed' /\ event'.sock \notin inputs'
             /\ running'
             /\ decisions' = decisions
             /\ server_finish_times' = server_finish_times
             /\ client_to_server' = client_to_server
             /\ server_to_client' = server_to_client
             /\ pending' = pending
             /\ inputs' \cap ServerNames = inputs \cap ServerNames
             /\ closed' \cap ServerNames = closed \cap ServerNames]_vars

\* a client that never sent a request disconnected while another client was
\* waiting for a backend's response
C15_Witness ==
    /\ event.kind = "client_closed"
    /\ decisions[event.sock] = 0
    /\ event.sock \in closed
    /\ \E b \in ServerNames :
           server_to_client[b] \notin {None, event.sock}

\* C16: while the loop runs, no routing table holds an entry that references
\* a client whose connection has been closed.
C16_NoEntryForClosedClient ==
    running =>
        \A c \in Clients :
            c \in closed
                => /\ client_to_server[c] = None
                   /\ \A b \in ServerNames : server_to_client[b] # c

\* C17: a decision is one step: the value it commits is computed from the
\* tracker as all earlier decisions left it and from the current clock, and
\* no backend is retired within the step.
C17_DecisionReadsCommittedTracker ==
    [][DecisionStep
          => /\ event'.finish = ClaimFinish(event'.chosen, event'.request)
             /\ server_finish_times'[event'.chosen] = event'.finish
             /\ \A b \in ServerNames :
                    ClaimFinish(event'.chosen, event'.request)
                        <= ClaimFinish(b, event'.request)
             /\ running'
                    => closed' \cap ServerNames = closed \cap ServerNames]_vars

\* a decision was computed on top of the commit of an earlier decision
C17_Witness ==
    /\ event.kind = "request" /\ event.outcome = "forwarded"
    /\ TotalDecisions >= 2
    /\ event.finish > now
    /\ \E b \in ServerNames :
           b # event.chosen /\ server_finish_times[b] > now

\* C18: whenever a backend response is relayed, the client found in the
\* backend-to-client table is still open and still in the readiness set.
C18_RelayTargetStillOpen ==
    [][(event'.kind = "response" /\ server_to_client[event'.sock] # None)
          => /\ server_to_client[event'.sock] \in inputs
             /\ server_to_client[event'.sock] \notin closed
             /\ running']_vars

\* C19: a decision changes the tracker entry of the chosen backend only,
\* and a step that is no decision changes no tracker entry.
C19_OnlyChosenEntryChanges ==
    [][/\ DecisionStep
          => \A b \in ServerNames \ {event'.chosen} :
                 server_finish_times'[b] = server_finish_times[b]
       /\ ~DecisionStep => server_finish_times' = server_finish_times]_vars

\* a backend with a committed estimate in the future closed its connection
C19_Witness ==
    /\ event.kind = "server_closed"
    /\ server_finish_times[event.sock] > now
    /\ TotalDecisions >= 1
====
